---- MODULE Spec2Model ----
(***************************************************************************)
(* Model of the RTSP->HLS stream supervisor of server/index.js: the job    *)
(* record streamState, the FFmpeg availability probe, startRTSPStream with *)
(* its subprocess callbacks and grace timer, stopRTSPStream with its HLS   *)
(* directory cleanup, and the three /api/stream routes.                    *)
(*                                                                         *)
(* Node runs every handler (route, event callback, timer callback) to      *)
(* completion on one thread, so each handler is one atomic action.  A      *)
(* promise settles once; the .then/.catch reaction that sends the HTTP     *)
(* response is folded into the action that settles it.                     *)
(*                                                                         *)
(* index.js holds two versions of the server one after the other (lines    *)
(* 1-429 and 430-818).  The model follows the first: its routes are the    *)
(* ones registered first, so they are the ones that answer.                *)
(*                                                                         *)
(* Time is the order of events.  The grace timers of startRTSPStream all   *)
(* have the same delay, so they fire in the order they were armed; the     *)
(* probe's timer has another delay and fires at any point.  startTime is   *)
(* the ordinal of the spawn that set it.                                   *)
(*                                                                         *)
(* Error messages are kept as sequences of words, and String.includes is   *)
(* matching of a contiguous run of words.                                  *)
(***************************************************************************)
EXTENDS Integers, Sequences, FiniteSets, TLC

\* ---------------------------------------------------------------- bounds
MaxSpawns == 3         \* transcoding subprocesses spawned in one run
MaxProcs == 2          \* the same, in Spec, SpecJob and SpecFiles
MaxProcsWide == 1      \* the same, in SpecProbe and SpecDir
MaxNow == 1            \* milliseconds that pass on the clock of the overlay store
MaxOverlays == 2       \* overlays in the store at one time

\* ------------------------------------------------------------- constants
NULL == "null"                     \* null in a string-valued field
NoProc == 0                        \* streamState.ffmpegProcess: null
NoTime == -1                       \* streamState.startTime: null
SignalCode == -1                   \* close(code) with code null: killed by a signal
SpawnFailCode == -2                \* close(code) after a failed spawn (ENOENT)
Urls == {"rtsp://A", "rtsp://B"}
ExitCodes == {0, 1, SignalCode}    \* close(code): 0, non-zero, null

Playlist == <<"stream", ".m3u8">>
Segment == <<"segment000", ".ts">>
\* what a chunk of subprocess output may say
Chunks == {<<"Opening", "input">>, <<"Stream", "mapping">>, <<"Connection", "refused">>}
FileNames == {Playlist, Segment}
NoFile == 0                        \* owner of a name that is not in the directory

VARIABLES streamState, procs, hlsDir, probe, last, overlays, now, reply

vars == <<streamState, procs, hlsDir, probe, last, overlays, now, reply>>

\* the stream supervisor's part of the state and the overlay store's
streamVars == <<streamState, procs, hlsDir, probe, last>>
overlayVars == <<overlays, now, reply>>

Pids == 1..Len(procs)

\* ------------------------------------------------------ messages, mapping
Includes(msg, pat) ==
    \E i \in 1..(Len(msg) - Len(pat) + 1) : SubSeq(msg, i, i + Len(pat) - 1) = pat

CodeText(code) == IF code = SignalCode THEN "null" ELSE ToString(code)

GuardMessage ==
    <<"FFmpeg", "not", "available.", "RTSP", "streaming", "requires", "FFmpeg",
      "for", "web", "browser", "compatibility.", "This", "environment", "does",
      "not", "support", "native", "binary", "execution.">>

CloseMessage(code) ==
    <<"FFmpeg", "process", "failed", "with", "exit", "code", CodeText(code), ".",
      "This", "may", "indicate", "the", "environment", "doesn't", "support",
      "FFmpeg", "execution", "or", "the", "RTSP", "stream", "is", "inaccessible.">>

TimeoutMessage ==
    <<"FFmpeg", "failed", "to", "start", "within", "timeout", "period.", "This",
      "environment", "may", "not", "support", "native", "binary", "execution.">>

SpawnErrorMessage == <<"spawn", "ffmpeg", "ENOENT">>

ErrNotAvailable == "FFmpeg not available"
ErrStartConversion == "Failed to start RTSP stream conversion"
ErrStart == "Failed to start RTSP stream"
ErrUrlRequired == "RTSP URL is required"
ErrStop == "Failed to stop stream"
HlsUrl == "http://localhost:3001/hls/stream.m3u8"

NoResponse == [status |-> 0, error |-> NULL, details |-> <<>>, hlsUrl |-> NULL]

StartedResponse ==
    [status |-> 200, error |-> NULL, details |-> <<>>, hlsUrl |-> HlsUrl]

OkResponse ==
    [status |-> 200, error |-> NULL, details |-> <<>>, hlsUrl |-> NULL]

ErrorResponse(code, err, msg) ==
    [status |-> code, error |-> err, details |-> msg, hlsUrl |-> NULL]

NoBody ==
    [isRunning |-> FALSE, hlsAvailable |-> FALSE, hlsUrl |-> NULL, rtspUrl |-> NULL,
     startTime |-> NoTime, mode |-> NULL, hasFFmpeg |-> FALSE]

\* last: what the handler that ran last was and what it sent (a start call
\* that spawned sends its response later, from procs[pid].response)
\* again: a stop right after a stop; logged: the handler logged an error
\* undeletable: the names on which unlinkSync throws during this handler
Answer(op, pid, resp, body, logged) ==
    [op |-> op, again |-> (op = "stop" /\ last.op = "stop"), pid |-> pid,
     response |-> resp, body |-> body, logged |-> logged, undeletable |-> {},
     listed |-> FALSE]

Callback == [op |-> "callback", again |-> FALSE, pid |-> NoProc,
             response |-> NoResponse, body |-> NoBody, logged |-> FALSE,
             undeletable |-> {}, listed |-> FALSE]

\* .catch of the start route
MapStartError(msg) ==
    IF Includes(msg, <<"not", "available">>) \/ Includes(msg, <<"not", "support">>)
    THEN ErrorResponse(500, ErrNotAvailable, msg)
    ELSE ErrorResponse(500, ErrStartConversion, msg)

\* ------------------------------------------------------------------ state
IdleJob(cap) ==
    [isRunning |-> FALSE, rtspUrl |-> NULL, startTime |-> NoTime,
     ffmpegProcess |-> NoProc, hasFFmpeg |-> cap]

NewProc(url) ==
    [rtspUrl |-> url, closed |-> FALSE, exitCode |-> SignalCode,
     signalled |-> FALSE, errored |-> FALSE, timerFired |-> FALSE,
     promise |-> "pending", response |-> NoResponse]

TypeOK ==
    /\ streamState.isRunning \in BOOLEAN
    /\ streamState.hasFFmpeg \in BOOLEAN
    /\ streamState.rtspUrl \in Urls \cup {NULL}
    /\ streamState.startTime \in Pids \cup {NoTime}
    /\ streamState.ffmpegProcess \in Pids \cup {NoProc}
    /\ Len(procs) <= MaxSpawns
    /\ \A f \in FileNames : hlsDir[f] \in Pids \cup {NoFile}
    /\ now \in 0..MaxNow
    /\ Len(overlays) <= MaxOverlays

\* data.json as the server creates it, and no overlay request answered yet
NoReply == [status |-> 0, overlays |-> <<>>]

InitOverlays ==
    /\ overlays = <<>>
    /\ now = 0
    /\ reply = NoReply

\* a server that takes the capability for granted until the probe has run
InitCapable ==
    /\ streamState = IdleJob(TRUE)
    /\ procs = <<>>
    /\ hlsDir = [f \in FileNames |-> NoFile]
    /\ probe = [closed |-> FALSE, hasOutput |-> FALSE, resolved |-> FALSE,
                timerFired |-> FALSE, exitCode |-> SignalCode, settledBy |-> "none"]
    /\ last = [op |-> "none", again |-> FALSE, pid |-> NoProc,
               response |-> NoResponse, body |-> NoBody, logged |-> FALSE,
               undeletable |-> {}, listed |-> FALSE]
    /\ InitOverlays

Init ==
    /\ streamState = IdleJob(FALSE)
    /\ procs = <<>>
    /\ hlsDir = [f \in FileNames |-> NoFile]
    /\ probe = [closed |-> FALSE, hasOutput |-> FALSE, resolved |-> FALSE,
                timerFired |-> FALSE, exitCode |-> SignalCode, settledBy |-> "none"]
    /\ last = [op |-> "none", again |-> FALSE, pid |-> NoProc,
               response |-> NoResponse, body |-> NoBody, logged |-> FALSE,
               undeletable |-> {}, listed |-> FALSE]
    /\ InitOverlays

\* ------------------------------------------------------------------ probe
\* resolve(v) of checkFFmpeg's promise, with the .then that stores the flag:
\* a promise that is settled ignores every later resolve
ProbeResolveAlways(v) == [streamState EXCEPT !.hasFFmpeg = v]

ProbeResolve(v) ==
    IF probe.resolved THEN streamState
    ELSE [streamState EXCEPT !.hasFFmpeg = v]

\* the probe record once `by` has called resolve
Settled(pr, by) ==
    IF pr.resolved THEN pr ELSE [pr EXCEPT !.resolved = TRUE, !.settledBy = by]

\* spawn() throws: the catch of checkFFmpeg resolves false; no handler and no
\* timer has been installed
ProbeThrow ==
    /\ probe = [closed |-> FALSE, hasOutput |-> FALSE, resolved |-> FALSE,
                timerFired |-> FALSE, exitCode |-> SignalCode, settledBy |-> "none"]
    /\ last.op = "none"
    /\ streamState' = ProbeResolve(FALSE)
    /\ probe' = [Settled(probe, "throw") EXCEPT !.closed = TRUE, !.timerFired = TRUE]
    /\ UNCHANGED <<procs, hlsDir>>
    /\ last' = Callback

ProbeData ==
    /\ ~probe.closed
    /\ probe' = [probe EXCEPT !.hasOutput = TRUE]
    /\ UNCHANGED <<streamState, procs, hlsDir>>
    /\ last' = Callback

ProbeError ==
    /\ ~probe.closed
    /\ ~probe.resolved
    /\ streamState' = ProbeResolve(FALSE)
    /\ probe' = Settled(probe, "error")
    /\ UNCHANGED <<procs, hlsDir>>
    /\ last' = Callback

ProbeCloseExitOnly(code) ==
    /\ ~probe.closed
    /\ streamState' = ProbeResolve(code = 0)
    /\ probe' = [Settled(probe, "close") EXCEPT !.closed = TRUE, !.exitCode = code]
    /\ UNCHANGED <<procs, hlsDir>>
    /\ last' = Callback

ProbeClose(code) ==
    /\ ~probe.closed
    /\ streamState' = ProbeResolve(code = 0 /\ probe.hasOutput)
    /\ probe' = [Settled(probe, "close") EXCEPT !.closed = TRUE, !.exitCode = code]
    /\ UNCHANGED <<procs, hlsDir>>
    /\ last' = Callback

ProbeTimer ==
    /\ ~probe.timerFired
    /\ streamState' = ProbeResolve(FALSE)
    /\ probe' = [Settled(probe, "timer") EXCEPT !.timerFired = TRUE]
    /\ UNCHANGED <<procs, hlsDir>>
    /\ last' = Callback

\* ----------------------------------------------------------- subprocesses
\* ChildProcess.kill('SIGTERM'): a signal to a process that has not closed
Kill(ps, pid) ==
    IF ps[pid].closed THEN ps ELSE [ps EXCEPT ![pid].signalled = TRUE]

\* reject(msg) of the promise of start call p: only the first settle counts
Reject(ps, p, msg) ==
    IF ps[p].promise # "pending" THEN ps
    ELSE [ps EXCEPT ![p].promise = "rejected", ![p].response = MapStartError(msg)]

\* resolve(outputPath) of the promise of start call p
Resolve(ps, p) ==
    IF ps[p].promise # "pending" THEN ps
    ELSE [ps EXCEPT ![p].promise = "resolved", ![p].response = StartedResponse]

\* a start that keeps the start time of the job it supersedes
startRTSPStreamKeepsTime(rtspUrl) ==
  IF ~streamState.hasFFmpeg
  THEN /\ last' = Answer("start", NoProc,
                         ErrorResponse(500, ErrStart, GuardMessage), NoBody, FALSE)
       /\ UNCHANGED <<streamState, procs>>
  ELSE
    LET killed == IF streamState.ffmpegProcess # NoProc
                  THEN Kill(procs, streamState.ffmpegProcess)
                  ELSE procs
        pid == Len(procs) + 1
    IN  /\ procs' = Append(killed, NewProc(rtspUrl))
        /\ streamState' = [streamState EXCEPT !.ffmpegProcess = pid,
                                               !.isRunning = TRUE,
                                               !.rtspUrl = rtspUrl,
                                               !.startTime =
                                                   IF streamState.startTime = NoTime
                                                   THEN pid
                                                   ELSE streamState.startTime]
        /\ last' = Answer("start", pid, NoResponse, NoBody, FALSE)

\* startRTSPStream, called by the start route inside its try block
startRTSPStream(rtspUrl) ==
  IF ~streamState.hasFFmpeg
  THEN /\ last' = Answer("start", NoProc,
                         ErrorResponse(500, ErrStart, GuardMessage), NoBody, FALSE)
       /\ UNCHANGED <<streamState, procs>>
  ELSE
    LET killed == IF streamState.ffmpegProcess # NoProc
                  THEN Kill(procs, streamState.ffmpegProcess)
                  ELSE procs
        pid == Len(procs) + 1
    IN  /\ procs' = Append(killed, NewProc(rtspUrl))
        /\ streamState' = [streamState EXCEPT !.ffmpegProcess = pid,
                                               !.isRunning = TRUE,
                                               !.rtspUrl = rtspUrl,
                                               !.startTime = pid]
        /\ last' = Answer("start", pid, NoResponse, NoBody, FALSE)

\* the start route without its own check of the capability flag
StartRequestUngated(rtspUrl) ==
    /\ IF rtspUrl = ""
       THEN /\ last' = Answer("start", NoProc,
                              ErrorResponse(400, ErrUrlRequired, <<>>), NoBody, FALSE)
            /\ UNCHANGED <<streamState, procs>>
       ELSE /\ Len(procs) < MaxSpawns
            /\ startRTSPStream(rtspUrl)
    /\ UNCHANGED <<hlsDir, probe>>

\* the start route without its check of the address
StartRequestAnyUrl(rtspUrl) ==
    /\ IF ~streamState.hasFFmpeg
       THEN /\ last' = Answer("start", NoProc,
                              ErrorResponse(500, ErrNotAvailable, <<>>), NoBody, FALSE)
            /\ UNCHANGED <<streamState, procs>>
       ELSE /\ Len(procs) < MaxSpawns
            /\ startRTSPStream(rtspUrl)
    /\ UNCHANGED <<hlsDir, probe>>

\* POST /api/stream/start
StartRequest(rtspUrl) ==
    /\ IF rtspUrl = ""
       THEN /\ last' = Answer("start", NoProc,
                              ErrorResponse(400, ErrUrlRequired, <<>>), NoBody, FALSE)
            /\ UNCHANGED <<streamState, procs>>
       ELSE IF ~streamState.hasFFmpeg
       THEN /\ last' = Answer("start", NoProc,
                              ErrorResponse(500, ErrNotAvailable, <<>>), NoBody, FALSE)
            /\ UNCHANGED <<streamState, procs>>
       ELSE /\ Len(procs) < MaxSpawns
            /\ startRTSPStream(rtspUrl)
    /\ UNCHANGED <<hlsDir, probe>>

\* streamState.isRunning = false; streamState.ffmpegProcess = null, as the
\* error and the close handler both do
ExitedKeepsHandle(st) == [st EXCEPT !.isRunning = FALSE]

ExitedClearsJob(st) ==
    [st EXCEPT !.isRunning = FALSE, !.ffmpegProcess = NoProc, !.rtspUrl = NULL,
               !.startTime = NoTime]

Exited(st) == [st EXCEPT !.isRunning = FALSE, !.ffmpegProcess = NoProc]

\* the job record the close handler leaves for an exit code
CloseRecord(st, code) == Exited(st)

\* ffmpeg.on('error'): the subprocess could not be spawned.  Node emits the
\* event on the tick after spawn() returned, before any other handler runs.
ProcError(p) ==
    /\ last.op = "start" /\ last.pid = p
    /\ ~procs[p].closed
    /\ ~procs[p].errored
    /\ streamState' = Exited(streamState)
    /\ procs' = Reject([procs EXCEPT ![p].errored = TRUE], p, SpawnErrorMessage)
    /\ UNCHANGED <<hlsDir, probe>>
    /\ last' = Callback

\* a close handler that spawns again after a failed exit
ProcCloseRestarts(p, code) ==
    /\ ~procs[p].closed
    /\ procs[p].errored <=> (code = SpawnFailCode)
    /\ LET ps == [procs EXCEPT ![p].closed = TRUE, ![p].exitCode = code]
           rejected == IF code # 0 /\ code # SignalCode
                       THEN Reject(ps, p, CloseMessage(code))
                       ELSE ps
       IN  IF code = 1 /\ Len(procs) < MaxSpawns
           THEN /\ procs' = Append(rejected, NewProc(procs[p].rtspUrl))
                /\ streamState' = [streamState EXCEPT !.ffmpegProcess = Len(procs) + 1,
                                                      !.isRunning = TRUE]
           ELSE /\ procs' = rejected
                /\ streamState' = CloseRecord(streamState, code)
    /\ UNCHANGED <<hlsDir, probe>>
    /\ last' = Callback

\* a close handler that empties the HLS directory
ProcClosePurges(p, code) ==
    /\ ~procs[p].closed
    /\ procs[p].errored <=> (code = SpawnFailCode)
    /\ streamState' = CloseRecord(streamState, code)
    /\ LET ps == [procs EXCEPT ![p].closed = TRUE, ![p].exitCode = code]
       IN  procs' = IF code # 0 /\ code # SignalCode
                    THEN Reject(ps, p, CloseMessage(code))
                    ELSE ps
    /\ hlsDir' = [f \in FileNames |-> NoFile]
    /\ UNCHANGED probe
    /\ last' = Callback

\* ffmpeg.on('close'); a subprocess that was never spawned closes with the
\* errno of the failure as its code
ProcClose(p, code) ==
    /\ ~procs[p].closed
    /\ procs[p].errored <=> (code = SpawnFailCode)
    /\ streamState' = CloseRecord(streamState, code)
    /\ LET ps == [procs EXCEPT ![p].closed = TRUE, ![p].exitCode = code]
       IN  procs' = IF code # 0 /\ code # SignalCode
                    THEN Reject(ps, p, CloseMessage(code))
                    ELSE ps
    /\ UNCHANGED <<hlsDir, probe>>
    /\ last' = Callback

\* a timer that settles nothing once the subprocess has closed
GraceTimerSkipsClosed(p) ==
    /\ ~procs[p].timerFired
    /\ \A q \in 1..(p - 1) : procs[q].timerFired
    /\ LET ps == [procs EXCEPT ![p].timerFired = TRUE]
       IN  procs' = IF procs[p].closed THEN ps
                    ELSE IF streamState.isRunning
                    THEN Resolve(ps, p)
                    ELSE Reject(ps, p, TimeoutMessage)
    /\ UNCHANGED <<streamState, hlsDir, probe>>
    /\ last' = Callback

\* a timer that looks at its own subprocess instead of streamState.isRunning
GraceTimerOwnProcess(p) ==
    /\ ~procs[p].timerFired
    /\ \A q \in 1..(p - 1) : procs[q].timerFired
    /\ LET ps == [procs EXCEPT ![p].timerFired = TRUE]
       IN  procs' = IF ~procs[p].closed /\ ~procs[p].errored
                    THEN Resolve(ps, p)
                    ELSE Reject(ps, p, TimeoutMessage)
    /\ UNCHANGED <<streamState, hlsDir, probe>>
    /\ last' = Callback

\* the setTimeout callback of startRTSPStream
GraceTimer(p) ==
    /\ ~procs[p].timerFired
    /\ \A q \in 1..(p - 1) : procs[q].timerFired
    /\ LET ps == [procs EXCEPT ![p].timerFired = TRUE]
       IN  procs' = IF streamState.isRunning
                    THEN Resolve(ps, p)
                    ELSE Reject(ps, p, TimeoutMessage)
    /\ UNCHANGED <<streamState, hlsDir, probe>>
    /\ last' = Callback

\* a start call that takes the indicator in the output as its success
ProcDataDecides(p, chunk) ==
    /\ ~procs[p].closed
    /\ ~procs[p].errored
    /\ procs' = IF Includes(chunk, <<"Opening">>) \/ Includes(chunk, <<"Stream", "mapping">>)
                THEN Resolve(procs, p)
                ELSE procs
    /\ UNCHANGED <<streamState, hlsDir, probe>>
    /\ last' = Callback

\* ffmpeg.stdout.on('data') and ffmpeg.stderr.on('data'): both only log
ProcData(p, chunk) ==
    /\ ~procs[p].closed
    /\ ~procs[p].errored
    /\ UNCHANGED <<streamState, procs, hlsDir, probe>>
    /\ last' = Callback

\* the transcoding subprocess writes its playlist or a segment (ffmpegArgs)
ProcWrite(p, f) ==
    /\ ~procs[p].closed
    /\ ~procs[p].errored
    /\ hlsDir[f] # p
    /\ hlsDir' = [hlsDir EXCEPT ![f] = p]
    /\ UNCHANGED <<streamState, procs, probe>>
    /\ last' = Callback

\* ---------------------------------------------------------------- stop
\* file.endsWith('.m3u8') || file.endsWith('.ts')
IsHlsFile(f) == f[2] \in {".m3u8", ".ts"}

\* what fs.readdirSync may return: the names present, in some order
Listings(dir) ==
    LET present == {f \in FileNames : dir[f] # NoFile}
    IN  {l \in UNION {[1..n -> present] : n \in 0..Cardinality(present)} :
            /\ Len(l) = Cardinality(present)
            /\ \A i, j \in 1..Len(l) : i # j => l[i] # l[j]}

\* files.forEach(...): unlinkSync throws at the first name in bad, which ends
\* the loop; threw tells whether the exception left the loop
RECURSIVE Unlink(_, _, _)
Unlink(dir, files, bad) ==
    IF files = <<>> THEN [dir |-> dir, threw |-> FALSE]
    ELSE IF ~IsHlsFile(Head(files)) THEN Unlink(dir, Tail(files), bad)
    ELSE IF Head(files) \in bad THEN [dir |-> dir, threw |-> TRUE]
    ELSE Unlink([dir EXCEPT ![Head(files)] = NoFile], Tail(files), bad)

\* the cleanup without its try/catch: the exception reaches the catch of the
\* stop route, which logs it
CleanUpUncaught(dir, readdirOk, files, bad) ==
    IF ~readdirOk THEN [dir |-> dir, threw |-> TRUE, logged |-> TRUE]
    ELSE LET r == Unlink(dir, files, bad)
         IN  [dir |-> r.dir, threw |-> r.threw, logged |-> r.threw]

\* the try/catch around the cleanup of stopRTSPStream: an exception of
\* readdirSync or unlinkSync is logged and goes no further
CleanUp(dir, readdirOk, files, bad) ==
    IF ~readdirOk THEN [dir |-> dir, threw |-> FALSE, logged |-> TRUE]
    ELSE LET r == Unlink(dir, files, bad)
         IN  [dir |-> r.dir, threw |-> FALSE, logged |-> r.threw]

\* stopRTSPStream: the job record and the processes after the call
StoppedProcs ==
    IF streamState.ffmpegProcess # NoProc
    THEN Kill(procs, streamState.ffmpegProcess)
    ELSE procs

\* the three resets moved inside the if of stopRTSPStream
StoppedStateIfHandle ==
    IF streamState.ffmpegProcess # NoProc
    THEN [streamState EXCEPT !.ffmpegProcess = NoProc, !.isRunning = FALSE,
                             !.rtspUrl = NULL, !.startTime = NoTime]
    ELSE streamState

StoppedState ==
    [streamState EXCEPT !.ffmpegProcess = NoProc, !.isRunning = FALSE,
                        !.rtspUrl = NULL, !.startTime = NoTime]

\* POST /api/stream/stop
StopRequest ==
    \E readdirOk \in BOOLEAN, files \in Listings(hlsDir),
       bad \in SUBSET {f \in FileNames : hlsDir[f] # NoFile} :
        LET r == CleanUp(hlsDir, readdirOk, files, bad)
        IN  /\ procs' = StoppedProcs
            /\ streamState' = StoppedState
            /\ hlsDir' = r.dir
            /\ last' = [Answer("stop", NoProc,
                               IF r.threw
                               THEN ErrorResponse(500, ErrStop, <<>>)
                               ELSE OkResponse, NoBody, r.logged)
                        EXCEPT !.undeletable = IF readdirOk THEN bad ELSE {},
                               !.listed = readdirOk]
            /\ UNCHANGED probe

\* -------------------------------------------------------------- status
StatusBodyFromJob ==
    [isRunning |-> streamState.isRunning,
     hlsAvailable |-> streamState.isRunning,
     hlsUrl |-> IF streamState.isRunning THEN HlsUrl ELSE NULL,
     rtspUrl |-> streamState.rtspUrl,
     startTime |-> streamState.startTime,
     mode |-> IF streamState.hasFFmpeg THEN "production" ELSE "demo",
     hasFFmpeg |-> streamState.hasFFmpeg]

StatusBody ==
    LET hlsExists == hlsDir[Playlist] # NoFile
    IN  [isRunning |-> streamState.isRunning,
         hlsAvailable |-> hlsExists,
         hlsUrl |-> IF hlsExists THEN HlsUrl ELSE NULL,
         rtspUrl |-> streamState.rtspUrl,
         startTime |-> streamState.startTime,
         mode |-> IF streamState.hasFFmpeg THEN "production" ELSE "demo",
         hasFFmpeg |-> streamState.hasFFmpeg]

StatusRequestReconciles ==
    /\ last' = Answer("status", NoProc, OkResponse, StatusBody, FALSE)
    /\ streamState' = [streamState EXCEPT !.isRunning = StatusBody.hlsAvailable]
    /\ UNCHANGED <<procs, hlsDir, probe>>

\* GET /api/stream/status
StatusRequest ==
    /\ last' = Answer("status", NoProc, OkResponse, StatusBody, FALSE)
    /\ UNCHANGED <<streamState, procs, hlsDir, probe>>

\* ------------------------------------------------------------ overlays
\* An overlay is the document of data.json: id, the text of the request body
\* and createdAt; createdId keeps the id the overlay was created with.
Texts == {"logo", "clock"}

\* Date.now().toString()
OverlayIds == {ToString(t) : t \in 0..MaxNow}

\* req.body: an id field or none, and the rest of the document
Bodies == [id : OverlayIds \cup {NULL}, text : Texts]

\* { ...overlay, ...req.body }
Merge(o, body) ==
    [o EXCEPT !.id = IF body.id # NULL THEN body.id ELSE @, !.text = body.text]

\* data.overlays.findIndex(o => o.id === req.params.id), 0 for -1
FindIndex(id) ==
    IF \E i \in 1..Len(overlays) : overlays[i].id = id
    THEN CHOOSE i \in 1..Len(overlays) :
             /\ overlays[i].id = id
             /\ \A j \in 1..(i - 1) : overlays[j].id # id
    ELSE 0

\* data.overlays.splice(index, 1)
Splice(seq, index) ==
    [i \in 1..(Len(seq) - 1) |-> IF i < index THEN seq[i] ELSE seq[i + 1]]

\* a millisecond passes
Tick ==
    /\ now < MaxNow
    /\ now' = now + 1
    /\ UNCHANGED <<overlays, reply>>
    /\ UNCHANGED streamVars

\* GET /api/overlays
GetOverlays ==
    /\ reply' = [status |-> 200, overlays |-> overlays]
    /\ UNCHANGED <<overlays, now>>
    /\ UNCHANGED streamVars

\* GET /api/overlays/:id
GetOverlay(id) ==
    /\ reply' = IF \E i \in 1..Len(overlays) : overlays[i].id = id
                THEN [status |-> 200, overlays |-> <<overlays[FindIndex(id)]>>]
                ELSE [status |-> 404, overlays |-> <<>>]
    /\ UNCHANGED <<overlays, now>>
    /\ UNCHANGED streamVars

\* POST /api/overlays
CreateOverlay(body) ==
    /\ Len(overlays) < MaxOverlays
    /\ LET newOverlay == Merge([id |-> ToString(now), text |-> body.text,
                                createdAt |-> now, createdId |-> ToString(now)],
                               body)
           stored == [newOverlay EXCEPT !.createdId = newOverlay.id]
       IN  /\ overlays' = Append(overlays, stored)
           /\ reply' = [status |-> 201, overlays |-> <<stored>>]
    /\ UNCHANGED now
    /\ UNCHANGED streamVars

\* PUT /api/overlays/:id
UpdateOverlay(id, body) ==
    /\ LET index == FindIndex(id)
       IN  IF index = 0
           THEN /\ reply' = [status |-> 404, overlays |-> <<>>]
                /\ UNCHANGED overlays
           ELSE /\ overlays' = [overlays EXCEPT ![index] = Merge(@, body)]
                /\ reply' = [status |-> 200, overlays |-> <<overlays'[index]>>]
    /\ UNCHANGED now
    /\ UNCHANGED streamVars

\* DELETE /api/overlays/:id
DeleteOverlay(id) ==
    /\ LET index == FindIndex(id)
       IN  IF index = 0
           THEN /\ reply' = [status |-> 404, overlays |-> <<>>]
                /\ UNCHANGED overlays
           ELSE /\ overlays' = Splice(overlays, index)
                /\ reply' = [status |-> 200, overlays |-> <<>>]
    /\ UNCHANGED now
    /\ UNCHANGED streamVars

\* ------------------------------------------------------- specification
Next ==
    /\ \/ ProbeThrow
       \/ ProbeData
       \/ ProbeError
       \/ \E code \in ExitCodes : ProbeClose(code)
       \/ ProbeTimer
       \/ \E u \in Urls \cup {""} : StartRequest(u)
       \/ \E p \in Pids : ProcError(p)
       \/ \E p \in Pids, code \in ExitCodes \cup {SpawnFailCode} : ProcClose(p, code)
       \/ \E p \in Pids : GraceTimer(p)
       \/ \E p \in Pids, chunk \in Chunks : ProcData(p, chunk)
       \/ \E p \in Pids, f \in FileNames : ProcWrite(p, f)
       \/ StopRequest
       \/ StatusRequest
    /\ Len(procs') <= MaxProcs
    /\ UNCHANGED overlayVars

Spec == Init /\ [][Next]_vars

\* The supervisor once the probe has run to its end, with either outcome.
InitJob ==
    /\ streamState \in {IdleJob(FALSE), IdleJob(TRUE)}
    /\ procs = <<>>
    /\ hlsDir = [f \in FileNames |-> NoFile]
    /\ probe = [closed |-> TRUE, hasOutput |-> streamState.hasFFmpeg,
                resolved |-> TRUE, timerFired |-> TRUE,
                exitCode |-> IF streamState.hasFFmpeg THEN 0 ELSE 1,
                settledBy |-> "close"]
    /\ last = [op |-> "none", again |-> FALSE, pid |-> NoProc,
               response |-> NoResponse, body |-> NoBody, logged |-> FALSE,
               undeletable |-> {}, listed |-> FALSE]
    /\ InitOverlays

NextJob ==
    /\ \/ \E u \in Urls \cup {""} : StartRequest(u)
       \/ \E p \in Pids : ProcError(p)
       \/ \E p \in Pids, code \in ExitCodes \cup {SpawnFailCode} : ProcClose(p, code)
       \/ \E p \in Pids : GraceTimer(p)
       \/ \E p \in Pids, chunk \in Chunks : ProcData(p, chunk)
       \/ StopRequest
       \/ StatusRequest
    /\ Len(procs') <= MaxProcs
    /\ UNCHANGED overlayVars

SpecJob == InitJob /\ [][NextJob]_vars

NextFiles ==
    \/ NextJob
    \/ /\ \E p \in Pids, f \in FileNames : ProcWrite(p, f)
       /\ UNCHANGED overlayVars

SpecFiles == InitJob /\ [][NextFiles]_vars

\* The supervisor and the HLS directory, with fewer subprocesses.
NextDir ==
    /\ NextFiles
    /\ Len(procs') <= MaxProcsWide

SpecDir == InitJob /\ [][NextDir]_vars

\* The server from its construction, the probe still to run, with fewer
\* subprocesses and none of them writing.
NextProbe ==
    /\ \/ ProbeThrow
       \/ ProbeData
       \/ ProbeError
       \/ \E code \in ExitCodes : ProbeClose(code)
       \/ ProbeTimer
       \/ NextJob
    /\ Len(procs') <= MaxProcsWide
    /\ UNCHANGED overlayVars

SpecProbe == Init /\ [][NextProbe]_vars

\* Starts, stops and subprocess exits alone, with one more subprocess.
NextExits ==
    /\ \/ \E u \in Urls : StartRequest(u)
       \/ \E p \in Pids, code \in ExitCodes : ProcClose(p, code)
       \/ StopRequest
    /\ UNCHANGED overlayVars

SpecExits == InitJob /\ [][NextExits]_vars

\* The supervisor and the directory where no timer stays pending, a live
\* subprocess keeps rewriting its playlist and the caller keeps asking for the
\* status.
Fairness ==
    /\ WF_vars(StatusRequest /\ UNCHANGED overlayVars)
    /\ \A p \in 1..MaxProcs :
           /\ WF_vars(p \in Pids /\ GraceTimer(p) /\ UNCHANGED overlayVars)
           /\ WF_vars(p \in Pids /\ ProcWrite(p, Playlist) /\ UNCHANGED overlayVars)

SpecLive == InitJob /\ [][NextFiles]_vars /\ Fairness

\* The overlay store: its routes share no state with the stream supervisor.
NextOverlays ==
    \/ Tick
    \/ GetOverlays
    \/ \E id \in OverlayIds : GetOverlay(id)
    \/ \E body \in Bodies : CreateOverlay(body)
    \/ \E id \in OverlayIds, body \in Bodies : UpdateOverlay(id, body)
    \/ \E id \in OverlayIds : DeleteOverlay(id)

SpecOverlays == Init /\ [][NextOverlays]_vars

\* ================================================================ claims

Live(p) == ~procs[p].closed /\ ~procs[p].errored

DirEmpty == \A f \in FileNames : hlsDir[f] = NoFile

\* C1: while streamState.hasFFmpeg is false no subprocess has been spawned,
\* the job record has the values it was created with (a start leaves it as
\* it was), and a start request with a source address is answered by the
\* handler itself, not after a grace period, with 'FFmpeg not available'.
C1_CapabilityGate ==
    ~streamState.hasFFmpeg =>
        /\ procs = <<>>
        /\ streamState = IdleJob(FALSE)
        /\ (last.op = "start" /\ last.response.status # 400) =>
               /\ last.response = ErrorResponse(500, ErrNotAvailable, <<>>)
               /\ last.pid = NoProc

C1_Witness ==
    /\ ~streamState.hasFFmpeg
    /\ last.op = "start"
    /\ last.response.error = ErrNotAvailable

\* C2: in every reachable state streamState.ffmpegProcess is non-null
\* exactly when streamState.isRunning is true.
C2_HandleIffRunning ==
    (streamState.ffmpegProcess # NoProc) <=> streamState.isRunning

C2_Witness ==
    /\ \E p \in Pids : procs[p].closed
    /\ \E p \in Pids : procs[p].signalled /\ ~procs[p].closed
    /\ streamState.ffmpegProcess = NoProc
    /\ last.op = "callback"

\* C3: after start(A) and then start(B) while A's grace timer is still
\* pending, once A has closed and for as long as B is alive and has not been
\* signalled (no stop reached it), B is the only live subprocess and the job
\* record tracks it: the handle is B's, the source address is B's and
\* isRunning is true.
C3_SupersedingJobTracked ==
    \A a, b \in Pids :
        ( /\ b = a + 1 /\ b = Len(procs)
          /\ ~procs[a].timerFired
          /\ procs[a].closed
          /\ Live(b) /\ ~procs[b].signalled )
        => /\ {p \in Pids : Live(p)} = {b}
           /\ streamState.ffmpegProcess = b
           /\ streamState.rtspUrl = procs[b].rtspUrl
           /\ streamState.isRunning

\* C4: the close or error notification of a subprocess that is not the one
\* the job record holds (it was stopped or superseded) leaves the handle and
\* isRunning of the current job as they are.
C4_LateExitHarmless ==
    [][\A p \in Pids :
          ( /\ \/ ~procs[p].closed /\ procs'[p].closed
               \/ ~procs[p].errored /\ procs'[p].errored
            /\ streamState.ffmpegProcess # NoProc
            /\ streamState.ffmpegProcess # p )
          => /\ streamState'.ffmpegProcess = streamState.ffmpegProcess
             /\ streamState'.isRunning = streamState.isRunning]_vars

\* C5: when the grace timer of a start call fires, the call is answered with
\* the playlist location only if the subprocess that call spawned is still
\* alive; if it has exited the call is answered with a failure.
C5_SuccessOnlyIfOwnProcessAlive ==
    [][\A p \in Pids :
          (~procs[p].timerFired /\ procs'[p].timerFired /\ ~Live(p))
          => procs'[p].response.status = 500]_vars

\* C6: when the subprocess of a start call has exited (with whatever code)
\* before the call's grace timer fires, the call is answered with 'Failed to
\* start RTSP stream conversion' and the exit code in its details; and as
\* long as no later start was accepted, isRunning is false.
C6_EarlyExitIsStartFailure ==
    [][\A p \in Pids :
          /\ (~procs[p].timerFired /\ procs'[p].timerFired
                 /\ procs[p].closed /\ ~procs[p].errored)
             => /\ procs'[p].response.error = ErrStartConversion
                /\ Includes(procs'[p].response.details,
                            <<"exit", "code", CodeText(procs[p].exitCode)>>)
          /\ (p = Len(procs') /\ procs'[p].closed) => ~streamState'.isRunning]_vars

\* C7: a start response carries 'FFmpeg not available' only when the
\* capability flag is false; with the flag true every failed start is
\* answered with 'Failed to start RTSP stream conversion'.
C7_FailureClasses ==
    /\ last.response.error = ErrNotAvailable => ~streamState.hasFFmpeg
    /\ \A p \in Pids :
          /\ procs[p].response.error = ErrNotAvailable => ~streamState.hasFFmpeg
          /\ (streamState.hasFFmpeg /\ procs[p].response.status = 500)
                => procs[p].response.error = ErrStartConversion

\* C8: whatever the state it is called in, stop answers with its
\* acknowledgment and leaves isRunning false and the handle, the source
\* address and the start time null; so does a stop that follows a stop.
C8_StopTotalIdempotent ==
    last.op = "stop" =>
        /\ last.response = OkResponse
        /\ streamState = IdleJob(streamState.hasFFmpeg)

C8_Witness ==
    /\ last.op = "stop"
    /\ last.again
    /\ \E p \in Pids : procs[p].closed /\ procs[p].response.status = 500
    /\ \E p \in Pids : ~procs[p].closed /\ procs[p].signalled

\* C9: from a stop until the next accepted start (the source address is
\* null throughout) the HLS directory holds neither the playlist nor a
\* segment, and status reports hlsAvailable = false.
C9_DirectoryEmptyAfterStop ==
    streamState.rtspUrl = NULL => (DirEmpty /\ ~StatusBody.hlsAvailable)

\* C10: a stop whose cleanup failed (the failure was logged) still answers
\* with its acknowledgment and leaves isRunning false and the handle null.
C10_CleanupFailureSwallowed ==
    (last.op = "stop" /\ last.logged) =>
        /\ last.response = OkResponse
        /\ ~streamState.isRunning
        /\ streamState.ffmpegProcess = NoProc

C10_Witness ==
    /\ last.op = "stop"
    /\ last.logged
    /\ ~DirEmpty
    /\ \E p \in Pids : procs[p].signalled

\* C11: after a stop that listed the HLS directory, every playlist or segment
\* file whose deletion can succeed is gone, whichever other files could not
\* be deleted.
C11_CleanupIsPerFile ==
    (last.op = "stop" /\ last.listed) =>
        \A f \in FileNames \ last.undeletable : hlsDir[f] = NoFile

\* C12: a status call changes neither the job record nor any subprocess
\* (none is spawned, none is signalled) nor the HLS directory.
C12_StatusIsPureRead ==
    [][last'.op = "status" => UNCHANGED <<streamState, procs, hlsDir, probe>>]_vars

C12_Witness ==
    /\ last.op = "status"
    /\ streamState.isRunning
    /\ hlsDir[Playlist] = NoFile
    /\ \E p \in Pids : procs[p].timerFired

\* C13: a status response reports hlsAvailable as the existence of the
\* playlist file, whatever isRunning is, a non-null hlsUrl exactly when
\* hlsAvailable, and isRunning, rtspUrl, startTime and hasFFmpeg as they are
\* in the job record.
C13_StatusReportsState ==
    last.op = "status" =>
        /\ last.body.hlsAvailable = (hlsDir[Playlist] # NoFile)
        /\ (last.body.hlsUrl # NULL) <=> last.body.hlsAvailable
        /\ last.body.isRunning = streamState.isRunning
        /\ last.body.rtspUrl = streamState.rtspUrl
        /\ last.body.startTime = streamState.startTime
        /\ last.body.hasFFmpeg = streamState.hasFFmpeg

C13_Witness ==
    /\ last.op = "status"
    /\ last.body.hlsAvailable
    /\ ~last.body.isRunning
    /\ last.body.hlsUrl = HlsUrl

C15_FlagWrittenOnce ==
    [][/\ (streamState'.hasFFmpeg # streamState.hasFFmpeg) =>
              (~probe.resolved /\ probe'.resolved /\ last'.op = "callback")
       /\ probe.resolved =>
              /\ probe'.resolved
              /\ probe'.settledBy = probe.settledBy
              /\ streamState'.hasFFmpeg = streamState.hasFFmpeg]_vars

C15_Witness ==
    /\ streamState.hasFFmpeg
    /\ probe.timerFired
    /\ last.op = "stop"
    /\ \E p \in Pids : procs[p].timerFired /\ procs[p].closed

\* the job whose start call answered with success and whose subprocess runs
Running(p) ==
    /\ streamState.ffmpegProcess = p
    /\ streamState.isRunning
    /\ procs[p].response.status = 200
    /\ Live(p)

\* C16: when the subprocess of a running job exits on its own, the job record
\* left after a non-zero exit code differs from the one left after exit
\* code 0.
C16_ExitOutcomesDistinguishable ==
    \A p \in Pids :
        Running(p) => CloseRecord(streamState, 1) # CloseRecord(streamState, 0)

\* C17: after the subprocess of a job whose start answered with success has
\* exited with a non-zero code, the next answer at the boundary carries an
\* error that is none of the other failures.
C17_RuntimeFailureSurfaced ==
    \A p \in Pids :
        (/\ p = Len(procs)
         /\ procs[p].response.status = 200
         /\ procs[p].closed
         /\ procs[p].exitCode = 1
         /\ last.op = "status")
        => last.response.error \notin
               {NULL, ErrNotAvailable, ErrStartConversion, ErrStart, ErrStop,
                ErrUrlRequired}

\* C18: the job record says running only once the grace timer of the job's
\* subprocess has fired.
C18_RunningOnlyAfterGrace ==
    \A p \in Pids :
        (streamState.isRunning /\ streamState.ffmpegProcess = p)
            => procs[p].timerFired

\* C19: whenever a subprocess has been spawned, every subprocess spawned
\* before it that has not exited has been sent the terminate signal.
C19_PredecessorsSignalled ==
    \A p, q \in Pids : (p < q /\ Live(p)) => procs[p].signalled

\* C20: once a job that superseded another has reached running, the HLS
\* directory holds only files written by its own subprocess.
C20_OnlyOwnFilesWhenRunning ==
    \A b \in Pids :
        (b > 1 /\ Running(b) /\ procs[b].timerFired)
            => \A f \in FileNames : hlsDir[f] \in {NoFile, b}

\* C21: a start request with an empty or missing address is answered with
\* the 400 error, and the step spawns nothing, signals nothing and leaves the
\* job record and the HLS directory as they were.
C21_EmptyAddressRejected ==
    [][StartRequest("") =>
           /\ last'.response = ErrorResponse(400, ErrUrlRequired, <<>>)
           /\ last'.pid = NoProc
           /\ UNCHANGED <<streamState, procs, hlsDir, probe>>]_vars

C21_Witness ==
    /\ last.op = "start"
    /\ last.response.status = 400
    /\ streamState.isRunning
    /\ hlsDir[Segment] # NoFile
    /\ \E p \in Pids : Live(p) /\ ~procs[p].signalled

\* C22: a step spawns at most one subprocess, and it spawns one exactly when
\* it is a start request that passed the address and capability checks; no
\* exit, error, timer, output or stop spawns.
C22_SpawnOnlyByAcceptedStart ==
    [][/\ Len(procs') \in {Len(procs), Len(procs) + 1}
       /\ (Len(procs') = Len(procs) + 1) <=>
              (last'.op = "start" /\ last'.pid # NoProc /\ last'.pid = Len(procs'))
       /\ (Len(procs') = Len(procs) + 1) => streamState.hasFFmpeg]_vars

C22_Witness ==
    /\ Len(procs) = 1
    /\ procs[1].closed
    /\ procs[1].exitCode = 1
    /\ procs[1].timerFired
    /\ last.op = "stop"

\* start call p answered with success, its subprocess is alive and neither a
\* stop nor another start has been handled since
SucceededAndAlive(p) ==
    /\ p <= Len(procs)
    /\ procs[p].response.status = 200
    /\ Live(p)
    /\ streamState.startTime = p

\* C23: once a start call has answered with success, then as long as its
\* subprocess stays alive and no stop (or other start) is handled, a status
\* answer eventually reports hlsAvailable = true with isRunning = true.
C23_StatusEventuallyAvailable ==
    \A p \in 1..MaxProcs :
        SucceededAndAlive(p) ~>
            \/ ~SucceededAndAlive(p)
            \/ last.op = "status" /\ last.body.hlsAvailable /\ last.body.isRunning

\* the step in which subprocess p closes or fails to spawn
ExitStep(p) ==
    \/ ~procs[p].closed /\ procs'[p].closed
    \/ ~procs[p].errored /\ procs'[p].errored

\* C24: the step in which a subprocess exits, with whatever code, leaves the
\* HLS directory as it was and isRunning false; a file that is in the
\* directory leaves it only in a stop.
C24_ExitLeavesDirectory ==
    [][/\ \A p \in Pids : ExitStep(p) => (hlsDir' = hlsDir /\ ~streamState'.isRunning)
       /\ \A f \in FileNames :
              (hlsDir[f] # NoFile /\ hlsDir'[f] = NoFile) => last'.op = "stop"]_vars

C24_Witness ==
    /\ last.op = "callback"
    /\ ~streamState.isRunning
    /\ \E p \in Pids :
           procs[p].closed /\ procs[p].exitCode = 0 /\ hlsDir[Playlist] = p

\* C25: a chunk of output of a subprocess, whatever it says, changes neither
\* the job record nor any start call's outcome; a step that changes one of
\* them is a start, a stop, an exit or error of a subprocess, or a grace
\* timer.
C25_OutputIsNotControl ==
    [][/\ \A p \in Pids, chunk \in Chunks :
              ProcData(p, chunk) => UNCHANGED <<streamState, procs, hlsDir, probe>>
       /\ (streamState' # streamState \/ procs' # procs) =>
              \/ last'.op \in {"start", "stop"}
              \/ \E p \in Pids : ExitStep(p)
              \/ \E p \in Pids : ~procs[p].timerFired /\ procs'[p].timerFired]_vars

C25_Witness ==
    /\ last.op = "callback"
    /\ \E p \in Pids :
           /\ Live(p)
           /\ procs[p].promise = "pending"
           /\ streamState.ffmpegProcess = p
           /\ streamState.isRunning

\* C26: after a stop, every subprocess that was spawned and has not exited
\* has been sent the terminate signal.
C26_StopSignalsEveryLiveProcess ==
    last.op = "stop" => \A p \in Pids : Live(p) => procs[p].signalled

\* C27: once the grace timer of an accepted start call has fired the call has
\* its response, a success or a failure, and a response that was sent is
\* never replaced by another.
C27_OneResponseByGraceTimer ==
    [][\A p \in Pids :
          /\ procs'[p].timerFired => procs'[p].response.status \in {200, 500}
          /\ procs[p].response # NoResponse =>
                 procs'[p].response = procs[p].response]_vars

C27_Witness ==
    \E p, q \in Pids :
        /\ p < q
        /\ procs[p].timerFired /\ procs[p].response.status = 200
        /\ procs[p].closed /\ procs[p].exitCode = 1
        /\ procs[q].timerFired /\ procs[q].response.status = 500
        /\ last.op = "stop"

\* C28: when the grace timer of a start call fires after a stop that no start
\* has followed (the recorded address is null), the call answers with a
\* failure and no playlist location, and the job record is idle with a null
\* handle.
C28_StopDuringGraceFailsStart ==
    [][\A p \in Pids :
          (~procs[p].timerFired /\ procs'[p].timerFired /\ streamState.rtspUrl = NULL)
          => /\ procs'[p].response.status = 500
             /\ procs'[p].response.hlsUrl = NULL
             /\ streamState' = IdleJob(streamState.hasFFmpeg)]_vars

C28_Witness ==
    /\ streamState.rtspUrl = NULL
    /\ \E p \in Pids :
           /\ procs[p].timerFired
           /\ procs[p].signalled
           /\ ~procs[p].closed
           /\ procs[p].response.details = TimeoutMessage

\* C29: whenever isRunning is true, the recorded address and start time are
\* not null and are those of the most recent accepted start call.
C29_RunningHasLatestJob ==
    streamState.isRunning =>
        /\ procs # <<>>
        /\ streamState.rtspUrl # NULL
        /\ streamState.startTime # NoTime
        /\ streamState.rtspUrl = procs[Len(procs)].rtspUrl
        /\ streamState.startTime = Len(procs)

C29_Witness ==
    /\ streamState.isRunning
    /\ Len(procs) = 2
    /\ procs[1].rtspUrl # procs[2].rtspUrl
    /\ procs[1].closed
    /\ procs[2].timerFired

\* C30: the step in which a subprocess exits or fails to spawn changes only
\* isRunning and the handle of the job record, so the status built after it
\* has the address and start time of the status built before it, with
\* isRunning false.
C30_ExitKeepsAddressAndTime ==
    [][\A p \in Pids :
          ExitStep(p) =>
              /\ streamState' = [streamState EXCEPT !.isRunning = FALSE,
                                                    !.ffmpegProcess = NoProc]
              /\ StatusBody'.rtspUrl = StatusBody.rtspUrl
              /\ StatusBody'.startTime = StatusBody.startTime
              /\ ~StatusBody'.isRunning]_vars

C30_Witness ==
    /\ last.op = "status"
    /\ ~last.body.isRunning
    /\ last.body.rtspUrl # NULL
    /\ last.body.startTime # NoTime
    /\ \E p \in Pids : procs[p].closed /\ last.body.startTime = p

\* C31: until the probe's promise is settled the capability flag is false and
\* no subprocess has been spawned; a start request with an address handled in
\* that window is answered with the 'FFmpeg not available' error, and a status
\* request with hasFFmpeg = false.
C31_NoCapabilityBeforeProbe ==
    ~probe.resolved =>
        /\ ~streamState.hasFFmpeg
        /\ procs = <<>>
        /\ (last.op = "start" /\ last.response.status # 400) =>
               /\ last.response = ErrorResponse(500, ErrNotAvailable, <<>>)
               /\ last.pid = NoProc
        /\ last.op = "status" => ~last.body.hasFFmpeg

\* the probe process has already produced its output when the start arrives
C31_Witness ==
    /\ ~probe.resolved
    /\ probe.hasOutput
    /\ last.op = "start"
    /\ last.response.error = ErrNotAvailable

\* the overlays of a store that were not created with id
Others(store, id) == {store[i] : i \in {j \in 1..Len(store) : store[j].createdId # id}}

\* C32: after every overlay request no two overlays of the store have the same
\* id, and an update or a delete addressed to an id leaves every overlay that
\* was not created with that id as it was.
C32_OverlayIdsUnique ==
    [][/\ \A i, j \in 1..Len(overlays') :
              i # j => overlays'[i].id # overlays'[j].id
       /\ \A id \in OverlayIds :
              (DeleteOverlay(id) \/ \E body \in Bodies : UpdateOverlay(id, body))
                  => Others(overlays', id) = Others(overlays, id)]_vars

====
